---- MODULE Spec2Model ----
(***************************************************************************)
(* Tiny Blog (bear.py): the Markdown block parser parse_markdown, the      *)
(* inline transformer process_inline and escape_html.                      *)
(*                                                                         *)
(* A Python str is modelled as a sequence of one-character strings, so     *)
(* that the regular-expression substitutions and the escaping are computed *)
(* character by character, as the code computes them.                      *)
(***************************************************************************)
EXTENDS Naturals, Sequences, FiniteSets

VARIABLES
    lines,             \* parse_markdown: the lines of text.split('\n') read so far by the for loop
    html_lines,        \* parse_markdown: html_lines
    in_code_block,     \* parse_markdown: in_code_block
    in_ul,             \* parse_markdown: in_ul
    in_ol,             \* parse_markdown: in_ol
    in_blockquote,     \* parse_markdown: in_blockquote
    blockquote_lines,  \* parse_markdown: blockquote_lines
    result,            \* parse_markdown: the returned string, once returned
    emitted,           \* history: emitted[i] = Len(html_lines) when the loop body of line i ended
    pc,                \* parse_markdown: "loop" (in the for loop), "done" (returned), "idle" (not called)
    fn_arg,            \* the argument of a call of process_inline / escape_html
    fn_ret,            \* its return value
    fn_pc,             \* "call" (before the call), "ret" (returned), "ret2" (applied to its own result), "idle"
    posts_dir,         \* build: the *.md files of the posts directory: file stem -> its frontmatter date, or NoDate
    todo,              \* build: the files posts_path.glob('*.md') has still to yield
    posts,             \* build: posts
    out_files,         \* build: the files written to the output directory: name -> page
    writes,            \* history: the names of the files written, in the order of the writes
    build_pc           \* build: "glob" (in the loop over the files), "done" (returned), "idle" (not called)

vars == <<lines, html_lines, in_code_block, in_ul, in_ol, in_blockquote,
          blockquote_lines, emitted, result, pc, fn_arg, fn_ret, fn_pc,
          posts_dir, todo, posts, out_files, writes, build_pc>>

buildVars == <<posts_dir, todo, posts, out_files, writes, build_pc>>

-----------------------------------------------------------------------------
(* Bounds of the model. *)

\* longest document (in lines) of the block specification
MaxLines == 5
\* longest document (in lines) of the specification over every line shape
MaxShapeLines == 3
\* longest free-form argument of process_inline
MaxInlineLen == 4
\* longest argument of escape_html
MaxEscapeLen == 3
\* longest alt text and url of an image argument of process_inline
MaxWordLen == 2

-----------------------------------------------------------------------------
(* Python str operations. *)

\* s.startswith(prefix); also "prefix occurs in s at position p"
HasAt(s, p, lit) ==
    /\ p + Len(lit) <= Len(s) + 1
    /\ SubSeq(s, p, p + Len(lit) - 1) = lit

startswith(s, prefix) == HasAt(s, 1, prefix)

\* s[n:]
From(s, n) == SubSeq(s, n + 1, Len(s))

\* s.replace(c, new) for a one-character c
RECURSIVE replace(_, _, _)
replace(s, c, new) ==
    IF s = <<>> THEN <<>>
    ELSE (IF Head(s) = c THEN new ELSE <<Head(s)>>) \o replace(Tail(s), c, new)

\* the whitespace str.strip() removes (of the characters the model uses)
Whitespace == {" ", "\t"}

RECURSIVE lstrip(_)
lstrip(s) == IF s # <<>> /\ Head(s) \in Whitespace THEN lstrip(Tail(s)) ELSE s

RECURSIVE rstrip(_)
rstrip(s) ==
    IF s # <<>> /\ s[Len(s)] \in Whitespace THEN rstrip(SubSeq(s, 1, Len(s) - 1)) ELSE s

strip(s) == rstrip(lstrip(s))

\* sep.join(parts)
RECURSIVE join(_, _)
join(sep, parts) ==
    IF parts = <<>> THEN <<>>
    ELSE IF Len(parts) = 1 THEN parts[1]
    ELSE parts[1] \o sep \o join(sep, Tail(parts))

\* the grave accent character (U+0060), which a TLA+ string literal cannot hold:
\* the one element "GRAVE" of a sequence stands for that one character
BACKTICK == "GRAVE"

\* [a-zA-Z]
Letters ==
    {"a","b","c","d","e","f","g","h","i","j","k","l","m",
     "n","o","p","q","r","s","t","u","v","w","x","y","z",
     "A","B","C","D","E","F","G","H","I","J","K","L","M",
     "N","O","P","Q","R","S","T","U","V","W","X","Y","Z"}

\* \d
Digits == {"0","1","2","3","4","5","6","7","8","9"}

\* the first position q >= p that is past the end of s or holds c: where the
\* greedy class [^c]* started at p stops
RECURSIVE RunEnd(_, _, _)
RunEnd(s, p, c) == IF p > Len(s) \/ s[p] = c THEN p ELSE RunEnd(s, p + 1, c)

\* the first position q >= p that is past the end of s or holds no digit (\d*)
RECURSIVE DigitsEnd(_, _)
DigitsEnd(s, p) == IF p > Len(s) \/ s[p] \notin Digits THEN p ELSE DigitsEnd(s, p + 1)

-----------------------------------------------------------------------------
(* escape_html *)

escape_html_amp_last(text) ==
    replace(replace(replace(text, "<", <<"&","l","t",";">>),
                    ">", <<"&","g","t",";">>),
            "&", <<"&","a","m","p",";">>)

escape_html(text) ==
    replace(replace(replace(text, "&", <<"&","a","m","p",";">>),
                    "<", <<"&","l","t",";">>),
            ">", <<"&","g","t",";">>)

-----------------------------------------------------------------------------
(* process_inline: eight re.sub passes, each over the result of the one    *)
(* before.  re.sub replaces the leftmost non-overlapping matches; at a     *)
(* position where the pattern does not match, the character is copied.     *)
(* In every pattern the class [^c] excludes the first character of what    *)
(* must follow it, so the greedy class has one way to match and no         *)
(* backtracking changes the outcome.                                       *)

\* re.sub(r'!\[([^\]]*)\]\(([^)]+)\)', r'<img src="\2" alt="\1">', s) when image,
\* re.sub(r'\[([^\]]+)\]\(([^)]+)\)', r'<a href="\2">\1</a>', s) otherwise,
\* from position p on
RECURSIVE SubBracket(_, _, _)
SubBracket(s, p, image) ==
    IF p > Len(s) THEN <<>>
    ELSE LET open == IF image THEN <<"!","[">> ELSE <<"[">>
             a == p + Len(open)
             q == RunEnd(s, a, "]")
             b == q + 2
             r == RunEnd(s, b, ")")
             ok == /\ HasAt(s, p, open)
                   /\ (image \/ q > a)
                   /\ HasAt(s, q, <<"]","(">>)
                   /\ r > b
                   /\ r <= Len(s)
             g1 == SubSeq(s, a, q - 1)
             g2 == SubSeq(s, b, r - 1)
         IN  IF ok
             THEN (IF image
                   THEN <<"<","i","m","g"," ","s","r","c","=","\"">> \o g2
                        \o <<"\""," ","a","l","t","=","\"">> \o g1 \o <<"\"",">">>
                   ELSE <<"<","a"," ","h","r","e","f","=","\"">> \o g2
                        \o <<"\"",">">> \o g1 \o <<"<","/","a",">">>)
                  \o SubBracket(s, r + 1, image)
             ELSE <<s[p]>> \o SubBracket(s, p + 1, image)

\* re.sub of  open ([^c]+) close  by  pre \1 post,  from position p on; with
\* word, the pattern is wrapped in (?<![a-zA-Z]) ... (?![a-zA-Z])
RECURSIVE SubSpan(_, _, _, _, _, _, _, _)
SubSpan(s, p, open, c, close, pre, post, word) ==
    IF p > Len(s) THEN <<>>
    ELSE LET a == p + Len(open)
             q == RunEnd(s, a, c)
             e == q + Len(close)
             ok == /\ HasAt(s, p, open)
                   /\ q > a
                   /\ HasAt(s, q, close)
                   /\ word => /\ (p = 1 \/ s[p - 1] \notin Letters)
                              /\ (e > Len(s) \/ s[e] \notin Letters)
         IN  IF ok
             THEN pre \o SubSeq(s, a, q - 1) \o post
                  \o SubSpan(s, e, open, c, close, pre, post, word)
             ELSE <<s[p]>> \o SubSpan(s, p + 1, open, c, close, pre, post, word)

STRONG_OPEN == <<"<","s","t","r","o","n","g",">">>
STRONG_CLOSE == <<"<","/","s","t","r","o","n","g",">">>
EM_OPEN == <<"<","e","m",">">>
EM_CLOSE == <<"<","/","e","m",">">>

sub_image(t) == SubBracket(t, 1, TRUE)
sub_link(t) == SubBracket(t, 1, FALSE)
sub_code(t) ==
    SubSpan(t, 1, <<BACKTICK>>, BACKTICK, <<BACKTICK>>,
            <<"<","c","o","d","e",">">>, <<"<","/","c","o","d","e",">">>, FALSE)
sub_highlight(t) ==
    SubSpan(t, 1, <<"=","=">>, "=", <<"=","=">>,
            <<"<","m","a","r","k",">">>, <<"<","/","m","a","r","k",">">>, FALSE)
sub_bold_star(t) == SubSpan(t, 1, <<"*","*">>, "*", <<"*","*">>, STRONG_OPEN, STRONG_CLOSE, FALSE)
sub_bold_under(t) == SubSpan(t, 1, <<"_","_">>, "_", <<"_","_">>, STRONG_OPEN, STRONG_CLOSE, FALSE)
sub_italic_star(t) == SubSpan(t, 1, <<"*">>, "*", <<"*">>, EM_OPEN, EM_CLOSE, FALSE)
sub_italic_under(t) == SubSpan(t, 1, <<"_">>, "_", <<"_">>, EM_OPEN, EM_CLOSE, TRUE)

\* the passes after the image and link passes
inline_styles(t) ==
    sub_italic_under(sub_italic_star(sub_bold_under(sub_bold_star(
        sub_highlight(sub_code(t))))))

\* a variant that runs the link pass before the image pass
process_inline_link_first(text) == inline_styles(sub_image(sub_link(text)))

\* a variant that HTML-escapes the text before the passes
process_inline_escaping(text) == inline_styles(sub_link(sub_image(escape_html(text))))

process_inline(text) == inline_styles(sub_link(sub_image(text)))

-----------------------------------------------------------------------------
(* parse_markdown.  st is the record of the function's local variables.    *)

FENCE == <<BACKTICK, BACKTICK, BACKTICK>>
PRE_OPEN == <<"<","p","r","e",">","<","c","o","d","e",">">>
PRE_CLOSE == <<"<","/","c","o","d","e",">","<","/","p","r","e",">">>
UL_OPEN == <<"<","u","l",">">>
UL_CLOSE == <<"<","/","u","l",">">>
OL_OPEN == <<"<","o","l",">">>
OL_CLOSE == <<"<","/","o","l",">">>
LI_OPEN == <<"<","l","i",">">>
LI_CLOSE == <<"<","/","l","i",">">>
BQ_OPEN == <<"<","b","l","o","c","k","q","u","o","t","e",">">>
BQ_CLOSE == <<"<","/","b","l","o","c","k","q","u","o","t","e",">">>
P_OPEN == <<"<","p",">">>
P_CLOSE == <<"<","/","p",">">>
HR == <<"<","h","r",">">>
NUM == <<"0","1","2","3","4">>
H_OPEN(n) == <<"<","h",NUM[n + 1],">">>
H_CLOSE(n) == <<"<","/","h",NUM[n + 1],">">>

\* html_lines.append(frag)
emit(st, frag) == [st EXCEPT !.html_lines = Append(@, frag)]

\* the fence branch: a line that starts with three grave accents
fence_line(st) ==
    IF st.in_code_block
    THEN [emit(st, PRE_CLOSE) EXCEPT !.in_code_block = FALSE]
    ELSE [emit(st, PRE_OPEN) EXCEPT !.in_code_block = TRUE]

\* a variant of the code-line branch that emits the line unescaped
code_line_raw(st, line) == emit(st, line)

\* a line inside a code block
code_line(st, line) == emit(st, escape_html(line))

\* line.startswith('- ') or line.startswith('* ')
is_bullet(line) == startswith(line, <<"-"," ">>) \/ startswith(line, <<"*"," ">>)

\* re.match(r'^\d+\. ', line)
ol_prefix(line) ==
    LET d == DigitsEnd(line, 1) IN d > 1 /\ HasAt(line, d, <<"."," ">>)

\* re.match(r'^(\d+)\. (.+)$', line): a line holds no '\n', so .+ takes the
\* rest of the line, which must not be empty
ol_match(line) ==
    LET d == DigitsEnd(line, 1) IN
    d > 1 /\ HasAt(line, d, <<"."," ">>) /\ Len(line) >= d + 2

\* ol_match.group(2)
ol_group2(line) == From(line, DigitsEnd(line, 1) + 1)

\* a variant of the list-closing tests that forgets the numbered list
close_lists_no_ol(st, line) ==
    IF st.in_ul /\ ~is_bullet(line)
    THEN [emit(st, UL_CLOSE) EXCEPT !.in_ul = FALSE]
    ELSE st

\* "Close lists if needed"
close_lists(st, line) ==
    LET s1 == IF st.in_ul /\ ~is_bullet(line)
              THEN [emit(st, UL_CLOSE) EXCEPT !.in_ul = FALSE]
              ELSE st
    IN  IF s1.in_ol /\ ~ol_prefix(line)
        THEN [emit(s1, OL_CLOSE) EXCEPT !.in_ol = FALSE]
        ELSE s1

\* the <blockquote> fragment of the accumulated lines
blockquote_fragment(parts) == BQ_OPEN \o join(<<" ">>, parts) \o BQ_CLOSE

\* a line that starts with '> '
quote_line(st, line) ==
    LET s1 == IF ~st.in_blockquote
              THEN [st EXCEPT !.in_blockquote = TRUE, !.blockquote_lines = <<>>]
              ELSE st
    IN  [s1 EXCEPT !.blockquote_lines = Append(@, process_inline(From(line, 2)))]

\* the elif of the blockquote branch: a line without '> ' ends the blockquote
flush_blockquote(st) ==
    IF st.in_blockquote
    THEN [emit(st, blockquote_fragment(st.blockquote_lines))
            EXCEPT !.in_blockquote = FALSE, !.blockquote_lines = <<>>]
    ELSE st

\* a variant of the header tests that takes any line starting with '#' as <h1>
header_level_any_hash(line) ==
    IF startswith(line, <<"#">>) THEN 1 ELSE 0

\* the header tests, in the code's order: the level, or 0 for no header
header_level(line) ==
    IF startswith(line, <<"#","#","#","#"," ">>) THEN 4
    ELSE IF startswith(line, <<"#","#","#"," ">>) THEN 3
    ELSE IF startswith(line, <<"#","#"," ">>) THEN 2
    ELSE IF startswith(line, <<"#"," ">>) THEN 1
    ELSE 0

\* line.strip() in ['---', '***', '___']
is_hr(line) == strip(line) \in {<<"-","-","-">>, <<"*","*","*">>, <<"_","_","_">>}

\* headers, horizontal rule, bullet list, numbered list, empty line, paragraph
block_line(st, line) ==
    LET n == header_level(line) IN
    IF n > 0
    THEN emit(st, H_OPEN(n) \o process_inline(From(line, n + 1)) \o H_CLOSE(n))
    ELSE IF is_hr(line)
    THEN emit(st, HR)
    ELSE IF is_bullet(line)
    THEN LET s1 == IF ~st.in_ul THEN [emit(st, UL_OPEN) EXCEPT !.in_ul = TRUE] ELSE st
         IN  emit(s1, LI_OPEN \o process_inline(From(line, 2)) \o LI_CLOSE)
    ELSE IF ol_match(line)
    THEN LET s1 == IF ~st.in_ol THEN [emit(st, OL_OPEN) EXCEPT !.in_ol = TRUE] ELSE st
         IN  emit(s1, LI_OPEN \o process_inline(ol_group2(line)) \o LI_CLOSE)
    ELSE IF strip(line) = <<>>
    THEN emit(st, <<>>)
    ELSE emit(st, P_OPEN \o process_inline(line) \o P_CLOSE)

\* a variant of the loop body that takes only the bare marker as a fence line
loop_body_exact_fence(st, line) ==
    IF line = FENCE THEN fence_line(st)
    ELSE IF st.in_code_block THEN code_line(st, line)
    ELSE LET s1 == close_lists(st, line) IN
         IF startswith(line, <<">"," ">>) THEN quote_line(s1, line)
         ELSE block_line(flush_blockquote(s1), line)

\* the body of "for line in lines"
loop_body(st, line) ==
    IF startswith(line, FENCE) THEN fence_line(st)
    ELSE IF st.in_code_block THEN code_line(st, line)
    ELSE LET s1 == close_lists(st, line) IN
         IF startswith(line, <<">"," ">>) THEN quote_line(s1, line)
         ELSE block_line(flush_blockquote(s1), line)

\* a variant of the final cleanup that forgets the numbered list
close_open_elements_no_ol(st) ==
    LET s1 == IF st.in_ul THEN emit(st, UL_CLOSE) ELSE st
    IN  IF s1.in_blockquote
        THEN emit(s1, blockquote_fragment(s1.blockquote_lines))
        ELSE s1

\* "Close open elements", after the loop
close_open_elements(st) ==
    LET s1 == IF st.in_ul THEN emit(st, UL_CLOSE) ELSE st
        s2 == IF s1.in_ol THEN emit(s1, OL_CLOSE) ELSE s1
    IN  IF s2.in_blockquote
        THEN emit(s2, blockquote_fragment(s2.blockquote_lines))
        ELSE s2

-----------------------------------------------------------------------------
(* Inputs. *)

\* the lines of the block specification: one line of each block kind
BlockLines ==
    { FENCE,
      <<"-"," ","a">>,
      <<"1","."," ","b">>,
      <<">"," ","q">>,
      <<"x">>,
      <<>> }

\* the lines of the specification over every line shape
ShapeLines ==
    BlockLines \cup
    { FENCE \o <<"p">>,
      <<"*"," ","b">>,
      <<"1","."," ">>,
      <<"#"," ","*","T","*">>,
      <<"#","#"," ","T">>,
      <<"#","#","#"," ","T">>,
      <<"#","#","#","#"," ","T">>,
      <<"#","#","#","#","#"," ","T">>,
      <<"-","-","-">>,
      <<"<","b",">">>,
      <<"&">>,
      <<"*","i","*">> }

-----------------------------------------------------------------------------
(* The state machine of one call of parse_markdown. *)

st_now ==
    [html_lines |-> html_lines, in_code_block |-> in_code_block, in_ul |-> in_ul,
     in_ol |-> in_ol, in_blockquote |-> in_blockquote,
     blockquote_lines |-> blockquote_lines]

FnIdle == fn_arg = <<>> /\ fn_ret = <<>> /\ fn_pc = "idle"

\* the empty function
NoFiles == [n \in {} |-> <<>>]

BuildIdle ==
    /\ posts_dir = NoFiles
    /\ todo = {}
    /\ posts = <<>>
    /\ out_files = NoFiles
    /\ writes = <<>>
    /\ build_pc = "idle"

Init ==
    /\ lines = <<>>
    /\ html_lines = <<>>
    /\ in_code_block = FALSE
    /\ in_ul = FALSE
    /\ in_ol = FALSE
    /\ in_blockquote = FALSE
    /\ blockquote_lines = <<>>
    /\ emitted = <<>>
    /\ result = <<>>
    /\ pc = "loop"
    /\ FnIdle
    /\ BuildIdle

\* one iteration of the for loop, on the next line of the document
ReadLine(line, max) ==
    /\ pc = "loop"
    /\ Len(lines) < max
    /\ LET st == loop_body(st_now, line) IN
        /\ html_lines' = st.html_lines
        /\ in_code_block' = st.in_code_block
        /\ in_ul' = st.in_ul
        /\ in_ol' = st.in_ol
        /\ in_blockquote' = st.in_blockquote
        /\ blockquote_lines' = st.blockquote_lines
        /\ emitted' = Append(emitted, Len(st.html_lines))
    /\ lines' = Append(lines, line)
    /\ UNCHANGED <<result, pc, fn_arg, fn_ret, fn_pc, buildVars>>

\* the end of the loop (text.split('\n') holds at least one line), the
\* cleanup and the return of '\n'.join(html_lines)
Return ==
    /\ pc = "loop"
    /\ Len(lines) >= 1
    /\ LET st == close_open_elements(st_now) IN
        /\ html_lines' = st.html_lines
        /\ result' = join(<<"\n">>, st.html_lines)
    /\ pc' = "done"
    /\ UNCHANGED <<lines, in_code_block, in_ul, in_ol, in_blockquote,
                   blockquote_lines, emitted, fn_arg, fn_ret, fn_pc, buildVars>>

Next ==
    \/ \E line \in BlockLines : ReadLine(line, MaxLines)
    \/ Return

Spec == Init /\ [][Next]_vars

NextShapes ==
    \/ \E line \in ShapeLines : ReadLine(line, MaxShapeLines)
    \/ Return

SpecShapes == Init /\ [][NextShapes]_vars

-----------------------------------------------------------------------------
(* Calls of the pure functions process_inline and escape_html. *)

\* the strings over chars of length at most n
StringsUpTo(chars, n) == UNION { [1..k -> chars] : k \in 0..n }

\* characters that no pattern of process_inline mentions
PlainChars == {"a", " ", "<", "&", "."}

\* the characters of the free-form arguments of process_inline
InlineChars == {"a", " ", "<", "&", "*", "_", "=", BACKTICK}

\* the characters of the arguments of escape_html
EscapeChars == {"&", "<", ">", "a", ";"}

\* '![alt](url)'
ImageText(alt, url) == <<"!","[">> \o alt \o <<"]","(">> \o url \o <<")">>

\* '**a *b* c**'
BoldItalicText(a, b, c) ==
    <<"*","*">> \o a \o <<" ","*">> \o b \o <<"*"," ">> \o c \o <<"*","*">>

\* '[text](url)'
LinkText(text, url) == <<"[">> \o text \o <<"]","(">> \o url \o <<")">>

\* urls that hold the delimiters of the later passes, and two that do not
StyledUrls ==
    { <<"a",".","a">>,
      <<"a","/","a">>,
      <<"*","a","*">>,
      <<"a","*","*","a","*","*">>,
      <<"_","a","_">>,
      <<"a","_","_","a","_","_">>,
      <<"=","=","a","=","=">>,
      <<BACKTICK,"a",BACKTICK>> }

AltWords == StringsUpTo(PlainChars, MaxWordLen)
UrlWords == AltWords \ {<<>>}
SpanWords == {<<"a">>, <<"b">>, <<"c",".">>}

InlineArgs ==
    StringsUpTo(InlineChars, MaxInlineLen)
    \cup { ImageText(alt, url) : alt \in AltWords, url \in UrlWords }
    \cup { BoldItalicText(a, b, c) : a \in SpanWords, b \in SpanWords, c \in SpanWords }
    \cup { LinkText(<<"t">>, url) : url \in StyledUrls }
    \cup { ImageText(<<"t">>, url) : url \in StyledUrls }

ParseIdle ==
    /\ lines = <<>>
    /\ html_lines = <<>>
    /\ in_code_block = FALSE
    /\ in_ul = FALSE
    /\ in_ol = FALSE
    /\ in_blockquote = FALSE
    /\ blockquote_lines = <<>>
    /\ emitted = <<>>
    /\ result = <<>>
    /\ pc = "idle"

parseVars == <<lines, html_lines, in_code_block, in_ul, in_ol, in_blockquote,
               blockquote_lines, emitted, result, pc>>

InitInline ==
    /\ ParseIdle
    /\ BuildIdle
    /\ fn_arg \in InlineArgs
    /\ fn_ret = <<>>
    /\ fn_pc = "call"

\* process_inline(fn_arg)
CallInline ==
    /\ pc = "idle"
    /\ fn_pc = "call"
    /\ fn_ret' = process_inline(fn_arg)
    /\ fn_pc' = "ret"
    /\ UNCHANGED <<parseVars, fn_arg, buildVars>>

SpecInline == InitInline /\ [][CallInline]_vars

InitEscape ==
    /\ ParseIdle
    /\ BuildIdle
    /\ fn_arg \in StringsUpTo(EscapeChars, MaxEscapeLen)
    /\ fn_ret = <<>>
    /\ fn_pc = "call"

\* escape_html(fn_arg)
CallEscape ==
    /\ pc = "idle"
    /\ fn_pc = "call"
    /\ fn_ret' = escape_html(fn_arg)
    /\ fn_pc' = "ret"
    /\ UNCHANGED <<parseVars, fn_arg, buildVars>>

\* escape_html applied to a string that escape_html returned
CallEscapeAgain ==
    /\ pc = "idle"
    /\ fn_pc = "ret"
    /\ fn_arg' = fn_ret
    /\ fn_ret' = escape_html(fn_ret)
    /\ fn_pc' = "ret2"
    /\ UNCHANGED <<parseVars, buildVars>>

NextEscape == CallEscape \/ CallEscapeAgain

SpecEscape == InitEscape /\ [][NextEscape]_vars

-----------------------------------------------------------------------------
(* build.  A source file is its stem and its frontmatter date (if any); its *)
(* title and body are functions of the file and are written title-of and    *)
(* body-of the stem.  A page is the record of what generate_html is given.  *)

\* most files in the posts directory
MaxPosts == 2

\* the stems of the *.md files a posts directory may hold
Stems == {"a", "b", "c", "index"}

\* the code points of the characters of the dates, in increasing order
DateCharOrder == <<"-","0","1","2","3","4","5","6","7","8","9">>

CodeRank(c) == CHOOSE i \in DOMAIN DateCharOrder : DateCharOrder[i] = c

\* a < b for Python strs: lexicographic by code point, a proper prefix first
RECURSIVE str_less(_, _)
str_less(a, b) ==
    IF b = <<>> THEN FALSE
    ELSE IF a = <<>> THEN TRUE
    ELSE IF Head(a) = Head(b) THEN str_less(Tail(a), Tail(b))
    ELSE CodeRank(Head(a)) < CodeRank(Head(b))

\* the date strings of the model, frontmatter dates and today's date alike
Dates == { <<"1">>, <<"1","0">>, <<"9">> }

\* what parse_frontmatter finds of the 'date' key of a file
FrontDates ==
    [has_date : {TRUE}, date : Dates] \cup [has_date : {FALSE}, date : {<<>>}]

\* the posts directories of the model
PostsDirs ==
    UNION { [S -> FrontDates] : S \in { T \in SUBSET Stems : Cardinality(T) <= MaxPosts } }

\* f'{slug}.html' and 'index.html', as <<stem, extension>>
OutName(slug) == <<slug, "html">>
IndexName == <<"index", "html">>

\* the page generate_html(title, article_html) of a post
PostPage(title, date, stem) ==
    [kind |-> "post", title |-> title, date |-> date,
     body |-> <<"body-of", stem>>, listing |-> <<>>]

\* the page generate_html(BLOG_TITLE, index_content, is_index=True)
IndexPage(listing) ==
    [kind |-> "index", title |-> <<"BLOG_TITLE">>, date |-> <<>>,
     body |-> <<>>, listing |-> listing]

\* open(name, 'w') and f.write(page)
write(files, name, page) ==
    [n \in DOMAIN files \cup {name} |-> IF n = name THEN page ELSE files[n]]

\* ps with x put after every post whose date is not less than x's
RECURSIVE insert_desc(_, _)
insert_desc(ps, x) ==
    IF ps = <<>> THEN <<x>>
    ELSE IF str_less(Head(ps).date, x.date) THEN <<x>> \o ps
    ELSE <<Head(ps)>> \o insert_desc(Tail(ps), x)

\* ps with x put after every post whose date is not greater than x's
RECURSIVE insert_asc(_, _)
insert_asc(ps, x) ==
    IF ps = <<>> THEN <<x>>
    ELSE IF str_less(x.date, Head(ps).date) THEN <<x>> \o ps
    ELSE <<Head(ps)>> \o insert_asc(Tail(ps), x)

\* a variant of the sort without reverse=True
RECURSIVE sort_posts_ascending(_)
sort_posts_ascending(ps) ==
    IF ps = <<>> THEN <<>>
    ELSE insert_asc(sort_posts_ascending(SubSeq(ps, 1, Len(ps) - 1)), ps[Len(ps)])

\* posts.sort(key=lambda x: x['date'], reverse=True): a stable sort, posts of
\* equal date keep their order
RECURSIVE sort_posts_desc(_)
sort_posts_desc(ps) ==
    IF ps = <<>> THEN <<>>
    ELSE insert_desc(sort_posts_desc(SubSeq(ps, 1, Len(ps) - 1)), ps[Len(ps)])

sort_posts(ps) == sort_posts_desc(ps)

InitBuild ==
    /\ ParseIdle
    /\ FnIdle
    /\ posts_dir \in PostsDirs
    /\ todo = DOMAIN posts_dir
    /\ posts = <<>>
    /\ out_files = NoFiles
    /\ writes = <<>>
    /\ build_pc = "glob"

\* one iteration of "for md_file in posts_path.glob('*.md')": glob yields the
\* files in an order of its own; today is datetime.now() as a date string
BuildPost(md_file, today) ==
    /\ build_pc = "glob"
    /\ md_file \in todo
    /\ LET title == <<"title-of", md_file>>
           date_str == IF posts_dir[md_file].has_date
                       THEN posts_dir[md_file].date ELSE today
           slug == md_file
       IN  /\ posts' = Append(posts, [title |-> title, date |-> date_str, slug |-> slug])
           /\ out_files' = write(out_files, OutName(slug), PostPage(title, date_str, md_file))
           /\ writes' = Append(writes, OutName(slug))
    /\ todo' = todo \ {md_file}
    /\ UNCHANGED <<parseVars, fn_arg, fn_ret, fn_pc, posts_dir, build_pc>>

\* after the loop: the sort, the index page and its write
BuildIndex ==
    /\ build_pc = "glob"
    /\ todo = {}
    /\ posts' = sort_posts(posts)
    /\ out_files' = write(out_files, IndexName, IndexPage(sort_posts(posts)))
    /\ writes' = Append(writes, IndexName)
    /\ build_pc' = "done"
    /\ UNCHANGED <<parseVars, fn_arg, fn_ret, fn_pc, posts_dir, todo>>

NextBuild ==
    \/ \E md_file \in Stems : \E today \in Dates : BuildPost(md_file, today)
    \/ BuildIndex

SpecBuild == InitBuild /\ [][NextBuild]_vars

-----------------------------------------------------------------------------
(* Vocabulary of the properties. *)

\* the number of fragments of seq equal to f
Count(seq, f) == Cardinality({ i \in DOMAIN seq : seq[i] = f })

\* sub occurs in s as a contiguous part
Contains(s, sub) == \E p \in 1..(Len(s) + 1) : HasAt(s, p, sub)

\* the concatenation of a sequence of sequences
RECURSIVE Flatten(_)
Flatten(ss) == IF ss = <<>> THEN <<>> ELSE Head(ss) \o Flatten(Tail(ss))

\* the document read so far has n lines
NLines == Len(lines)

\* line i is a fence boundary as the loop tests it
IsFenceLine(i) == startswith(lines[i], FENCE)

\* line i is read while code-fence mode is active: an odd number of fence
\* boundaries precede it
InFence(i) == Cardinality({ j \in 1..(i - 1) : IsFenceLine(j) }) % 2 = 1

\* the fragments appended to html_lines by the loop body of line i
Frags(i) == SubSeq(html_lines, (IF i = 1 THEN 0 ELSE emitted[i - 1]) + 1, emitted[i])

\* the fragments appended by the loop bodies of lines i..j
FragsOf(i, j) == SubSeq(html_lines, (IF i = 1 THEN 0 ELSE emitted[i - 1]) + 1, emitted[j])

\* the fragments appended after the loop
FinalFrags == SubSeq(html_lines, emitted[NLines] + 1, Len(html_lines))

IsBlockquoteFrag(f) ==
    /\ Len(f) >= Len(BQ_OPEN) + Len(BQ_CLOSE)
    /\ HasAt(f, 1, BQ_OPEN)
    /\ HasAt(f, Len(f) - Len(BQ_CLOSE) + 1, BQ_CLOSE)

IsQuoteLine(i) == startswith(lines[i], <<">"," ">>)

IsBulletLine(i) == startswith(lines[i], <<"-"," ">>) \/ startswith(lines[i], <<"*"," ">>)

\* the number of '#' characters line l begins with
RECURSIVE HashCount(_)
HashCount(l) == IF l # <<>> /\ Head(l) = "#" THEN 1 + HashCount(Tail(l)) ELSE 0

\* line i begins with exactly n '#' characters and a space, n in 1..4
IsHeaderLine(i) ==
    LET n == HashCount(lines[i]) IN
    n \in 1..4 /\ Len(lines[i]) > n /\ lines[i][n + 1] = " "

\* line i is a paragraph line: a non-blank line that is no fence boundary,
\* quote line, header, horizontal rule or list item
IsParagraphLine(i) ==
    LET l == lines[i] IN
    /\ ~IsFenceLine(i)
    /\ ~IsQuoteLine(i)
    /\ ~IsBulletLine(i)
    /\ ~IsHeaderLine(i)
    /\ strip(l) \notin {<<>>, <<"-","-","-">>, <<"*","*","*">>, <<"_","_","_">>}
    /\ ~(l[1] \in Digits /\ Contains(l, <<"."," ">>))

\* a fragment that closes a block opened by earlier lines
IsClosingFrag(f) == f \in {UL_CLOSE, OL_CLOSE} \/ IsBlockquoteFrag(f)

\* frags is expected, after fragments that only close earlier blocks
ProducesAfterClosings(frags, expected) ==
    \E n \in 0..Len(frags) :
        /\ SubSeq(frags, n + 1, Len(frags)) = expected
        /\ \A k \in 1..n : IsClosingFrag(frags[k])

ListItem(text) == LI_OPEN \o process_inline(text) \o LI_CLOSE

Paragraph(l) == P_OPEN \o process_inline(l) \o P_CLOSE

\* lines i..j are a maximal run of lines satisfying Is, outside a code fence
MaximalRun(Is(_), i, j) ==
    /\ i <= j
    /\ \A k \in i..j : Is(k) /\ ~InFence(k)
    /\ i = 1 \/ ~Is(i - 1)
    /\ j = NLines \/ ~Is(j + 1)

-----------------------------------------------------------------------------
(* C1.  Forced closure of code fences: when parse_markdown has returned,    *)
(* every '<pre><code>' fragment is followed by a later '</code></pre>'      *)
(* fragment.  The code does not close a fence left open at the end of the  *)
(* document.                                                               *)
C1_FencesClosed ==
    pc = "done" =>
        \A i \in DOMAIN html_lines :
            html_lines[i] = PRE_OPEN =>
                \E j \in DOMAIN html_lines : j > i /\ html_lines[j] = PRE_CLOSE

(* C2.  End-of-document closure: when parse_markdown has returned, the      *)
(* '<ul>' and '</ul>' fragments are equal in number, so are the '<ol>' and  *)
(* '</ol>' fragments, every collected '> ' line is inside a later           *)
(* '<blockquote>' fragment, and the fragments appended after the loop are   *)
(* the close of the open list followed by the flush of the open blockquote. *)
C2_EndOfDocumentClosure ==
    pc = "done" =>
        /\ Count(html_lines, UL_OPEN) = Count(html_lines, UL_CLOSE)
        /\ Count(html_lines, OL_OPEN) = Count(html_lines, OL_CLOSE)
        /\ \A i \in 1..NLines :
              IsQuoteLine(i) /\ ~InFence(i) =>
                  \E j \in DOMAIN html_lines :
                      /\ j > emitted[i]
                      /\ IsBlockquoteFrag(html_lines[j])
                      /\ Contains(html_lines[j], process_inline(From(lines[i], 2)))
        /\ FinalFrags =
              (IF in_ul THEN <<UL_CLOSE>> ELSE <<>>)
              \o (IF in_ol THEN <<OL_CLOSE>> ELSE <<>>)
              \o (IF in_blockquote
                  THEN <<blockquote_fragment(blockquote_lines)>> ELSE <<>>)

\* a document with a bullet list and a numbered list that ends in a pending
\* blockquote, flushed after the loop
C2_Witness ==
    /\ pc = "done"
    /\ in_blockquote
    /\ Count(html_lines, UL_OPEN) = 1
    /\ Count(html_lines, OL_CLOSE) = 1
    /\ IsBlockquoteFrag(html_lines[Len(html_lines)])

(* C3.  List grouping: outside a code fence, a maximal run of k bullet      *)
(* lines followed by a paragraph line produces '<ul>', the k '<li>'         *)
(* fragments in source order, '</ul>' and then the '<p>' fragment.  A list  *)
(* left open across a code fence (C12) breaks it.                           *)
C3_ListGrouping ==
    \A i \in 1..NLines : \A j \in i..(NLines - 1) :
        MaximalRun(IsBulletLine, i, j) /\ IsParagraphLine(j + 1) =>
            ProducesAfterClosings(FragsOf(i, j + 1),
                <<UL_OPEN>>
                \o [k \in 1..(j - i + 1) |-> ListItem(From(lines[i + k - 1], 2))]
                \o <<UL_CLOSE, Paragraph(lines[j + 1])>>)

(* C4.  Blockquote flushing: outside a code fence, a maximal run of k '> '  *)
(* lines followed by a paragraph line or by the end of the document         *)
(* produces no fragment of its own (a quote line at most closes an open     *)
(* list) and then exactly one '<blockquote>'                                *)
(* fragment holding the k inline-transformed remainders joined by single    *)
(* spaces, before the '<p>' fragment.  A blockquote left pending across a   *)
(* code fence (C12, C15) breaks it.                                         *)
C4_BlockquoteFlushing ==
    \A i \in 1..NLines : \A j \in i..NLines :
        MaximalRun(IsQuoteLine, i, j) =>
            LET bq == blockquote_fragment(
                          [k \in 1..(j - i + 1) |-> process_inline(From(lines[i + k - 1], 2))])
            IN  /\ \A k \in i..j : \A n \in DOMAIN Frags(k) : Frags(k)[n] \in {UL_CLOSE, OL_CLOSE}
                /\ (j < NLines /\ IsParagraphLine(j + 1)) =>
                       Frags(j + 1) = <<bq, Paragraph(lines[j + 1])>>
                /\ (j = NLines /\ pc = "done") => FinalFrags = <<bq>>

(* C5.  Code fence content: every line read while code-fence mode is        *)
(* active that is no fence boundary is emitted as exactly one fragment,     *)
(* escape_html(line): no inline transformation, no block recognition,       *)
(* whether or not a closing fence follows; the fragment holds no '<' and    *)
(* no '>'.                                                                  *)
C5_CodeFenceContent ==
    \A i \in 1..NLines :
        InFence(i) /\ ~IsFenceLine(i) =>
            /\ Frags(i) = <<escape_html(lines[i])>>
            /\ \A n \in DOMAIN Frags(i)[1] : Frags(i)[1][n] \notin {"<", ">"}
            /\ Len(Frags(i)[1]) =
                   Len(lines[i])
                   + 3 * Cardinality({ n \in DOMAIN lines[i] : lines[i][n] \in {"<", ">"} })
                   + 4 * Cardinality({ n \in DOMAIN lines[i] : lines[i][n] = "&" })

\* the line '<b>' and the line '# *T*' inside a fence that is never closed
C5_Witness ==
    /\ pc = "done"
    /\ in_code_block
    /\ NLines = 3
    /\ lines[2] = <<"<","b",">">>
    /\ lines[3] = <<"#"," ","*","T","*">>
    /\ html_lines = <<PRE_OPEN, <<"&","l","t",";","b","&","g","t",";">>, lines[3]>>

\* the characters the patterns of process_inline mention
InlineDelimiters == {"!", "[", "]", "(", ")", BACKTICK, "=", "*", "_"}

(* C6.  Bold containing italic: process_inline of '**a *b* c**' is          *)
(* '<strong>a <em>b</em> c</strong>'.  The bold pattern's class [^*]+       *)
(* cannot cross the inner '*', so the code pairs the asterisks otherwise.   *)
C6_BoldContainingItalic ==
    fn_pc = "ret" =>
        \A a \in SpanWords : \A b \in SpanWords : \A c \in SpanWords :
            fn_arg = BoldItalicText(a, b, c) =>
                fn_ret = STRONG_OPEN \o a \o <<" ">> \o EM_OPEN \o b \o EM_CLOSE
                         \o <<" ">> \o c \o STRONG_CLOSE

(* C7.  Image-before-link precedence: process_inline of '![alt](url)', alt  *)
(* and url free of inline delimiters and url non-empty, is                  *)
(* '<img src="url" alt="alt">', with no '<a href=' (the opening of an <a>   *)
(* element, which the delimiter-free alt and url cannot hold themselves)    *)
(* and no '!' in it.                                                        *)
C7_ImageBeforeLink ==
    fn_pc = "ret" =>
        \A q \in 3..(Len(fn_arg) - 3) :
            LET alt == SubSeq(fn_arg, 3, q - 1)
                url == SubSeq(fn_arg, q + 2, Len(fn_arg) - 1)
            IN  /\ fn_arg = ImageText(alt, url)
                /\ \A n \in DOMAIN alt : alt[n] \notin InlineDelimiters
                /\ \A n \in DOMAIN url : url[n] \notin InlineDelimiters
                =>
                /\ fn_ret = <<"<","i","m","g"," ","s","r","c","=","\"">> \o url
                            \o <<"\""," ","a","l","t","=","\"">> \o alt \o <<"\"",">">>
                /\ ~Contains(fn_ret, <<"<","a"," ","h","r","e","f","=">>)
                /\ ~Contains(fn_ret, <<"!">>)

\* '![a](a.)' has been transformed
C7_Witness ==
    /\ fn_pc = "ret"
    /\ fn_arg = ImageText(<<"a">>, <<"a",".">>)
    /\ fn_ret = <<"<","i","m","g"," ","s","r","c","=","\"","a",".","\"",
                  " ","a","l","t","=","\"","a","\"",">">>

(* C8.  Header longest-prefix match: outside a code fence, a line that      *)
(* begins with exactly n '#' characters and a space, n in 1..4, produces    *)
(* (after the fragments closing an open list or blockquote) the single      *)
(* fragment '<hn>' + process_inline(rest) + '</hn>', and no header fragment *)
(* whose content begins with '#'.                                           *)
C8_HeaderLongestPrefix ==
    \A i \in 1..NLines :
        ~InFence(i) /\ IsHeaderLine(i) =>
            LET n == HashCount(lines[i]) IN
            /\ ProducesAfterClosings(Frags(i),
                   << H_OPEN(n) \o process_inline(From(lines[i], n + 1)) \o H_CLOSE(n) >>)
            /\ \A k \in DOMAIN Frags(i) : \A m \in 1..4 :
                   ~(HasAt(Frags(i)[k], 1, H_OPEN(m) \o <<"#">>))

\* '#### T' after a bullet line, and '# *T*' after it
C8_Witness ==
    /\ NLines = 3
    /\ lines[2] = <<"#","#","#","#"," ","T">>
    /\ lines[3] = <<"#"," ","*","T","*">>
    /\ html_lines = << UL_OPEN, <<"<","l","i",">","a","<","/","l","i",">">>, UL_CLOSE,
                       <<"<","h","4",">","T","<","/","h","4",">">>,
                       <<"<","h","1",">","<","e","m",">","T","<","/","e","m",">","<","/","h","1",">">> >>

\* text with each '&', '<', '>' replaced, character by character
EscapedCharByChar(s) ==
    Flatten([i \in DOMAIN s |->
                IF s[i] = "&" THEN <<"&","a","m","p",";">>
                ELSE IF s[i] = "<" THEN <<"&","l","t",";">>
                ELSE IF s[i] = ">" THEN <<"&","g","t",";">>
                ELSE <<s[i]>>])

(* C9.  Escaping is applied once and ampersand-first: escape_html(s) is s   *)
(* with each '&', '<', '>' replaced by '&amp;', '&lt;', '&gt;' and nothing  *)
(* else changed (escape_html('<') = '&lt;'), and escape_html is not        *)
(* idempotent: escape_html('&') = '&amp;', escape_html('&amp;') =           *)
(* '&amp;amp;'.                                                             *)
C9_EscapeOnce ==
    fn_pc \in {"ret", "ret2"} =>
        /\ fn_ret = EscapedCharByChar(fn_arg)
        /\ fn_arg = <<"<">> => fn_ret = <<"&","l","t",";">>
        /\ fn_arg = <<"&">> => fn_ret = <<"&","a","m","p",";">>
        /\ fn_arg = <<"&","a","m","p",";">> =>
               fn_ret = <<"&","a","m","p",";","a","m","p",";">>
        /\ Contains(fn_arg, <<"&">>) => fn_ret # fn_arg

\* escape_html applied to '&amp;', the result of escape_html('&')
C9_Witness ==
    /\ fn_pc = "ret2"
    /\ fn_arg = <<"&","a","m","p",";">>
    /\ fn_ret = <<"&","a","m","p",";","a","m","p",";">>

(* C10.  Identity on unstyled text: process_inline(line) = line for every   *)
(* line that holds none of the inline delimiter characters.                 *)
C10_IdentityOnPlainText ==
    fn_pc = "ret" =>
        ((\A n \in DOMAIN fn_arg : fn_arg[n] \notin InlineDelimiters) => fn_ret = fn_arg)

\* 'a <&' has been transformed
C10_Witness ==
    /\ fn_pc = "ret"
    /\ fn_arg = <<"a"," ","<","&">>
    /\ fn_ret = fn_arg

(* C12.  Code-fence mode excludes the list and blockquote modes: after any  *)
(* prefix of any document in_code_block is never true together with in_ul,  *)
(* in_ol or in_blockquote (a fence line that opens a code block would have  *)
(* closed the open list and flushed the pending blockquote, resetting       *)
(* their flags).  The fence branch of the code runs before the list and     *)
(* blockquote branches and touches neither.                                 *)
C12_FenceExcludesListAndQuote ==
    ~(in_code_block /\ (in_ul \/ in_ol \/ in_blockquote))

\* at most one of the list and blockquote modes is active
ListQuoteExclusive ==
    /\ ~(in_ul /\ in_ol)
    /\ ~(in_ul /\ in_blockquote)
    /\ ~(in_ol /\ in_blockquote)

\* the fragments a step appends to html_lines
NewFrags == SubSeq(html_lines', Len(html_lines) + 1, Len(html_lines'))

\* a step that opens a list or blockquote mode while another one is active
\* appends the closing fragment of the active one first, and the opening
\* fragment of the new list (if any) right after it
ClosesBeforeOpening ==
    LET opened == IF in_ul' /\ ~in_ul THEN <<UL_OPEN>>
                  ELSE IF in_ol' /\ ~in_ol THEN <<OL_OPEN>>
                  ELSE <<>>
        begins(closing) ==
            /\ Len(NewFrags) >= 1 + Len(opened)
            /\ SubSeq(NewFrags, 1, 1 + Len(opened)) = <<closing>> \o opened
    IN  /\ (in_ul /\ (in_ol' \/ in_blockquote')) =>
               /\ begins(UL_CLOSE)
               /\ in_blockquote' => Len(blockquote_lines') = 1
        /\ (in_ol /\ (in_ul' \/ in_blockquote')) =>
               /\ begins(OL_CLOSE)
               /\ in_blockquote' => Len(blockquote_lines') = 1
        /\ (in_blockquote /\ (in_ul' \/ in_ol')) =>
               begins(blockquote_fragment(blockquote_lines))

(* C13.  List/blockquote mutual exclusion: after any prefix of any document *)
(* at most one of in_ul, in_ol and in_blockquote is true, and a line that   *)
(* opens one of these modes while another is active emits the closing       *)
(* fragment of the active mode ('</ul>', '</ol>' or the flushed             *)
(* '<blockquote>') before the opening fragment or the first buffered line   *)
(* of the new mode.                                                         *)
C13_ListQuoteExclusion ==
    /\ []ListQuoteExclusive
    /\ [][ClosesBeforeOpening]_vars

\* a blockquote, then a bullet list, then a numbered list, each opened while
\* the one before was active
C13_Witness ==
    /\ NLines = 3
    /\ in_ol
    /\ html_lines = << blockquote_fragment(<< <<"q">> >>),
                       UL_OPEN, ListItem(<<"a">>), UL_CLOSE,
                       OL_OPEN, ListItem(<<"b">>) >>

\* the line whose loop body appended fragment m (NLines + 1: the final cleanup)
LineOfFrag(m) ==
    IF m > emitted[NLines] THEN NLines + 1
    ELSE CHOOSE i \in 1..NLines :
             emitted[i] >= m /\ \A j \in 1..(i - 1) : emitted[j] < m

\* fragment m lies after the '<ol>' fragment k and before the next '</ol>'
InsideOl(k, m) ==
    /\ html_lines[k] = OL_OPEN
    /\ k < m
    /\ \A n \in (k + 1)..m : html_lines[n] # OL_CLOSE

(* C14.  Numbered-list continuation: a line that is not emitted as a        *)
(* numbered list item closes the open numbered list first, so every         *)
(* fragment between an '<ol>' and its '</ol>' that comes from a line        *)
(* outside a code fence is an '<li>' fragment, for every line shape.  For   *)
(* a line of digits, a dot and one space the two patterns of the code       *)
(* disagree: the list is kept open and the line becomes a paragraph in it.  *)
C14_OnlyItemsInsideOl ==
    \A k \in DOMAIN html_lines : \A m \in DOMAIN html_lines :
        /\ InsideOl(k, m)
        /\ LineOfFrag(m) <= NLines
        /\ ~IsFenceLine(LineOfFrag(m))
        /\ ~InFence(LineOfFrag(m))
        => HasAt(html_lines[m], 1, LI_OPEN)

(* C15.  Blockquote mode ends at the first line without the '> ' prefix,    *)
(* whatever the line is (paragraph, header, list item, blank line, fence    *)
(* marker, line inside a fence): the loop body of that line appends the     *)
(* one '<blockquote>' fragment of the collected lines before anything       *)
(* else, so the blockquote never follows later content and separated quote  *)
(* lines are never merged.  A fence marker does not flush the accumulator   *)
(* (C12).                                                                   *)
C15_QuoteEndsAtNextLine ==
    \A i \in 1..(NLines - 1) :
        /\ IsQuoteLine(i)
        /\ ~IsFenceLine(i)
        /\ ~InFence(i)
        /\ ~IsQuoteLine(i + 1)
        => /\ Frags(i + 1) # <<>>
           /\ IsBlockquoteFrag(Frags(i + 1)[1])
           /\ \A n \in 2..Len(Frags(i + 1)) : ~IsBlockquoteFrag(Frags(i + 1)[n])

\* an odd number of the lines read are exactly the fence marker
OddExactFences == Cardinality({ j \in 1..NLines : lines[j] = FENCE }) % 2 = 1

(* C16.  Fence boundary recognition, as claimed: code-fence mode is toggled *)
(* by a line if and only if the line is exactly the triple-backtick marker, *)
(* so a line of three backticks followed by text leaves the mode as it is.  *)
C16_FenceOnlyExactMarker ==
    pc = "loop" => (in_code_block <=> OddExactFences)

(* C16, amended.  Code-fence mode is toggled by a line if and only if the   *)
(* line begins with the triple-backtick marker, whatever follows it: such a *)
(* line appends only '<pre><code>' (outside a fence) or '</code></pre>'     *)
(* (inside a fence) and is never emitted as content, and no other line      *)
(* appends either fragment.                                                 *)
C16_FenceByPrefix ==
    pc = "loop" =>
        /\ in_code_block <=> InFence(NLines + 1)
        /\ \A i \in 1..NLines :
              IF IsFenceLine(i)
              THEN Frags(i) = IF InFence(i) THEN <<PRE_CLOSE>> ELSE <<PRE_OPEN>>
              ELSE \A n \in DOMAIN Frags(i) : Frags(i)[n] \notin {PRE_OPEN, PRE_CLOSE}

\* a code block opened and closed by lines of three backticks followed by 'p'
C16_Witness ==
    /\ pc = "loop"
    /\ lines = << FENCE \o <<"p">>, <<"x">>, FENCE \o <<"p">> >>
    /\ html_lines = << PRE_OPEN, <<"x">>, PRE_CLOSE >>
    /\ ~in_code_block

(* C17.  Later inline rules do not re-match text emitted by earlier rules:  *)
(* the url of a link '[text](url)' or image '![alt](url)' is, character for *)
(* character, the value of the href/src attribute in the result of          *)
(* process_inline, also when it holds '*', '_', '=' or grave accents.  The  *)
(* later passes run over the whole string, the emitted attribute included.  *)
C17_UrlKeptVerbatim ==
    fn_pc = "ret" =>
        \A url \in StyledUrls :
            /\ fn_arg = LinkText(<<"t">>, url) =>
                   fn_ret = <<"<","a"," ","h","r","e","f","=","\"">> \o url
                            \o <<"\"",">","t","<","/","a",">">>
            /\ fn_arg = ImageText(<<"t">>, url) =>
                   fn_ret = <<"<","i","m","g"," ","s","r","c","=","\"">> \o url
                            \o <<"\""," ","a","l","t","=","\"","t","\"",">">>

-----------------------------------------------------------------------------
\* the posts listed by the index page a completed build has written
Listing == out_files[IndexName].listing

\* C11: in the index page written by build the posts are listed in
\* non-increasing order of their date strings under string comparison,
\* whatever order the files were discovered in, and every discovered post is
\* listed exactly once.
C11_IndexOrdering ==
    build_pc = "done" =>
        /\ \A i \in 1..(Len(Listing) - 1) :
               ~str_less(Listing[i].date, Listing[i + 1].date)
        /\ Len(Listing) = Cardinality(DOMAIN posts_dir)
        /\ \A md_file \in DOMAIN posts_dir :
               Cardinality({ i \in DOMAIN Listing : Listing[i].slug = md_file }) = 1

\* a.md dated "10" is discovered before b.md dated "9"; the index lists b first
C11_Witness ==
    /\ build_pc = "done"
    /\ writes = <<OutName("a"), OutName("b"), IndexName>>
    /\ Len(Listing) = 2
    /\ Listing[1].slug = "b" /\ Listing[1].date = <<"9">>
    /\ Listing[2].slug = "a" /\ Listing[2].date = <<"1", "0">>

\* C18: when build completes, for every source document of the posts
\* directory the output file <slug>.html holds that document's page, and all
\* writes of the build, the index page write included, target pairwise
\* distinct output files.
C18_NoPostPageDestroyed ==
    build_pc = "done" =>
        /\ \A md_file \in DOMAIN posts_dir :
               /\ OutName(md_file) \in DOMAIN out_files
               /\ \E i \in DOMAIN posts :
                      /\ posts[i].slug = md_file
                      /\ out_files[OutName(md_file)] =
                             PostPage(posts[i].title, posts[i].date, md_file)
        /\ \A i, j \in DOMAIN writes : i # j => writes[i] # writes[j]

====
